---- MODULE Spec2Model ----
(***************************************************************************)
(* Model of fllama's InferenceQueue (src/src/fllama_inference_queue.cpp):   *)
(* the task queue and its single worker thread, the cancellation flags,    *)
(* the reference-counted model cache with its janitor thread, the           *)
(* destructor, and the tokenizer-side cache of src/src/fllama_tokenize.cpp. *)
(*                                                                         *)
(* Threads: the caller threads (Producers), the worker                     *)
(* (process_inference), the janitor (cleanup_inactive_models) and the      *)
(* thread that runs ~InferenceQueue.  Every std::mutex is a variable that  *)
(* holds its owner; every critical section is entered by one step, run by  *)
(* a second and left by a third, so that what a call returns is visible    *)
(* in the state in which it still holds its lock.                          *)
(***************************************************************************)
EXTENDS Integers, Sequences, FiniteSets, TLC

(* ------------------------------ bounds -------------------------------- *)
MaxTasks == 3          \* enqueue calls made over one run
MaxReqId == 2          \* request ids are 1..MaxReqId
MaxHandle == 2         \* handle pairs a loader can hand to register_model
MaxUsers == 2          \* cap on active_users (an int in the code)
MaxTime == 2           \* steady_clock seconds the run covers
TokMaxTime == 32       \* steady_clock seconds the tokenizer run covers
TokMaxLoads == 2       \* llama_load_model_from_file calls over one run
\* MODEL_INACTIVITY_TIMEOUT_SEC is set in fllama_inference_queue.h; the model
\* keeps it a small number of seconds so that the clock can pass it.
MODEL_INACTIVITY_TIMEOUT_SEC == 1
\* cleanup_cache: elapsed.count() > 30
TOKENIZER_CACHE_TTL_SEC == 30

Producers == {"p1", "p2"}
ReqIds == 1..MaxReqId
Paths == {"a.gguf", "b.gguf"}
Handles == 1..MaxHandle
None == "none"         \* no owner, no outcome
Nil == [nil |-> TRUE]   \* no task, no argument, no result
NoEntry == [absent |-> TRUE]
NullPair == <<0, 0>>   \* std::make_tuple(nullptr, nullptr)
\* the (llama_model*, llama_context*) pairs a loader hands to register_model
LoadedPairs == {<<h, h>> : h \in Handles}

VARIABLES
  (* InferenceQueue members *)
  tasks,          \* std::queue<TaskWrapper>: sequence of task records, see Emplace
  cancel_flags,   \* std::unordered_map<int,bool>: the ids mapped to true
  done,           \* shutdown flag
  cached_models,  \* path -> ModelResources record, or NoEntry
  queue_lock, inference_lock, models_lock,   \* owner of each mutex, or None
  (* threads *)
  pc,             \* position of every producer inside its current call
  arg,            \* the arguments of that call
  ret,            \* what the call returns (set by its body)
  wpc,            \* position of the worker in process_inference
  cur,            \* worker: the task it dequeued (taskWrapperPtr)
  racy,           \* worker: its cancellation check overlapped a write of cancel_flags
  jpc,            \* position of the janitor in cleanup_inactive_models
  dpc,            \* position of the thread running ~InferenceQueue
  now,            \* std::chrono::steady_clock::now(), in seconds
  swept,          \* history: the paths the scan the janitor is ending has freed
  released,       \* history: the handle pairs passed to llama_free / llama_model_free
  (* history (not read by the program) *)
  nextUid,        \* number of the next task appended
  started,        \* uids whose body started, in order
  finished,       \* uids whose body ended (returned or threw), in order
  skipped,        \* uids discarded by the cancellation check
  lastOutcome,    \* how the last body ended: "ok", "throw", or None before any
  (* tokenizer cache (fllama_tokenize.cpp) *)
  model_cache,    \* path -> ModelCacheEntry [model, last_access], or NoEntry
  tokpc,          \* position of the caller inside _get_or_load_model
  tokarg,         \* its model_path, with what cleanup_cache found for it (history)
  tokret,         \* [model |-> the llama_model it returns], 0 for nullptr
  tokLoads        \* llama_load_model_from_file calls so far

queueVars == <<tasks, cancel_flags, done, queue_lock, inference_lock, wpc, cur, racy,
               dpc, nextUid, started, finished, skipped, lastOutcome>>
cacheVars == <<cached_models, models_lock, jpc, now, swept, released>>
callVars == <<pc, arg, ret>>
tokVars == <<model_cache, tokpc, tokarg, tokret, tokLoads>>
vars == <<queueVars, cacheVars, callVars, tokVars>>

Present(cm, path) == cm[path] # NoEntry
PairOf(e) == <<e.model, e.ctx>>

(* ------------------------ model cache: pure parts ---------------------- *)

\* ModelResources(model, ctx): the constructor lives in fllama_inference_queue.h
ModelResources(model, ctx, t) ==
  [model |-> model, ctx |-> ctx, last_used |-> t, active_users |-> 0]

\* mutant of register_model: a second registration replaces the entry
register_model_replacing(cm, path, model, ctx, t) ==
  [cm EXCEPT ![path] = ModelResources(model, ctx, t)]

\* register_model, lines 70-87
register_model(cm, path, model, ctx, t) ==
  IF Present(cm, path)
    THEN [cm EXCEPT ![path].last_used = t]
    ELSE [cm EXCEPT ![path] = ModelResources(model, ctx, t)]

\* get_cached_model, lines 89-107: the cache afterwards
get_cached_model(cm, path, t) ==
  IF Present(cm, path)
    THEN [cm EXCEPT ![path].last_used = t,
                   ![path].active_users = cm[path].active_users + 1]
    ELSE cm

\* get_cached_model: the tuple returned
get_cached_model_result(cm, path) ==
  IF Present(cm, path) THEN PairOf(cm[path]) ELSE NullPair

\* mark_model_used, lines 109-116
mark_model_used(cm, path, t) ==
  IF Present(cm, path) THEN [cm EXCEPT ![path].last_used = t] ELSE cm

\* increment_model_users, lines 118-127
increment_model_users(cm, path) ==
  IF Present(cm, path)
    THEN [cm EXCEPT ![path].active_users = cm[path].active_users + 1]
    ELSE cm

\* mutant of decrement_model_users: no test of active_users > 0
decrement_model_users_unguarded(cm, path, t) ==
  IF Present(cm, path)
    THEN [cm EXCEPT ![path].active_users = cm[path].active_users - 1,
                   ![path].last_used = t]
    ELSE cm

\* decrement_model_users, lines 129-142
decrement_model_users(cm, path, t) ==
  IF Present(cm, path)
    THEN LET au == cm[path].active_users
         IN [cm EXCEPT ![path].active_users = IF au > 0 THEN au - 1 ELSE au,
                       ![path].last_used = t]
    ELSE cm

\* mutant of free_model_resources: the handles are released and the entry stays
free_model_resources_leaving(cm, path) == cm

\* mutant of free_model_resources: no test of active_users
free_model_resources_unguarded(cm, path) ==
  IF Present(cm, path) THEN [cm EXCEPT ![path] = NoEntry] ELSE cm

\* free_model_resources, lines 148-168: llama_free(ctx), llama_model_free(model)
\* and cached_models.erase(it) go together, so an entry is in the map exactly
\* as long as its handles are not released
free_model_resources(cm, path) ==
  IF Present(cm, path)
    THEN IF cm[path].active_users > 0
           THEN cm
           ELSE [cm EXCEPT ![path] = NoEntry]
    ELSE cm

\* free_model_resources, lines 150-164: the handles it passes to llama_free and
\* llama_model_free
FreedHandles(cm, path) ==
  IF Present(cm, path) /\ ~(cm[path].active_users > 0)
    THEN {PairOf(cm[path])}
    ELSE {}

\* for (const auto& path : models_to_free) free_model_resources(path);
RECURSIVE FreeEach(_, _)
FreeEach(cm, paths) ==
  IF paths = {} THEN cm
  ELSE LET p == CHOOSE q \in paths : TRUE
       IN FreeEach(free_model_resources(cm, p), paths \ {p})

\* mutant of InactiveModels: elapsed > MODEL_INACTIVITY_TIMEOUT_SEC
InactiveModelsStrict(cm, t) ==
  {p \in Paths : /\ Present(cm, p)
                 /\ t - cm[p].last_used > MODEL_INACTIVITY_TIMEOUT_SEC
                 /\ cm[p].active_users = 0}

\* cleanup_inactive_models, lines 184-199: the paths collected in models_to_free
InactiveModels(cm, t) ==
  {p \in Paths : /\ Present(cm, p)
                 /\ t - cm[p].last_used >= MODEL_INACTIVITY_TIMEOUT_SEC
                 /\ cm[p].active_users = 0}

\* cleanup_inactive_models, lines 181-204: one scan
SweepOnce(cm, t) == FreeEach(cm, InactiveModels(cm, t))

\* lines 202-204: the handles one scan releases
SweepFrees(cm, t) == UNION {FreedHandles(cm, p) : p \in InactiveModels(cm, t)}

\* clear_model_cache, lines 272-284: the paths collected in models_to_free
ClearCandidates(cm, force_clear) ==
  {p \in Paths : Present(cm, p) /\ (cm[p].active_users = 0 \/ force_clear)}

\* clear_model_cache, lines 267-293
clear_model_cache(cm, force_clear) ==
  FreeEach(cm, ClearCandidates(cm, force_clear))

\* ~InferenceQueue, lines 36-43: every handle left is released whatever its
\* active_users, and the map is cleared
DestructorFree(cm) == [p \in Paths |-> NoEntry]

\* lines 38-42: the handles the destructor releases
DestructorFrees(cm) == {PairOf(cm[p]) : p \in {q \in Paths : Present(cm, q)}}

\* lines 287-289: the handles clear_model_cache releases
ClearFrees(cm, force_clear) ==
  UNION {FreedHandles(cm, p) : p \in ClearCandidates(cm, force_clear)}

(* ------------------------------ initial state -------------------------- *)

\* InferenceQueue::InferenceQueue, lines 11-14: done(false), both threads started
Init ==
  /\ tasks = <<>> /\ cancel_flags = {} /\ done = FALSE
  /\ cached_models = [p \in Paths |-> NoEntry]
  /\ queue_lock = None /\ inference_lock = None /\ models_lock = None
  /\ pc = [p \in Producers |-> "idle"]
  /\ arg = [p \in Producers |-> Nil]
  /\ ret = [p \in Producers |-> Nil]
  /\ wpc = "w_lock" /\ cur = Nil /\ racy = FALSE
  /\ jpc = "j_top" /\ dpc = "alive"
  /\ now = 0 /\ swept = {} /\ released = {}
  /\ nextUid = 1 /\ started = <<>> /\ finished = <<>> /\ skipped = {}
  /\ lastOutcome = None
  /\ model_cache = [p \in Paths |-> NoEntry]
  /\ tokpc = "idle" /\ tokarg = Nil /\ tokret = Nil /\ tokLoads = 0

(* -------------------------- condition variables ------------------------ *)

\* cond_var.notify_one(): the worker is the only thread that waits on cond_var
NotifyWorker(w) == IF w = "w_wait" THEN "w_woken" ELSE w

\* cleanup_cond_var.notify_one(): the janitor is its only waiter
NotifyJanitor(j) == IF j = "j_wait" THEN "j_woken" ELSE j

\* a caller may start a call while the object is alive
CanCall(p) == pc[p] = "idle" /\ dpc = "alive"

Enter(p, where, a) ==
  /\ pc' = [pc EXCEPT ![p] = where]
  /\ arg' = [arg EXCEPT ![p] = a]
  /\ ret' = ret

Goto(p, where) == pc' = [pc EXCEPT ![p] = where] /\ arg' = arg

Leave(p) ==
  /\ pc' = [pc EXCEPT ![p] = "idle"]
  /\ arg' = [arg EXCEPT ![p] = Nil]
  /\ ret' = [ret EXCEPT ![p] = Nil]

(* ------------------------------ task queue ----------------------------- *)

\* enqueue, line 48: std::lock_guard lock(queue_lock)
EnqueueLock(p, r) ==
  /\ CanCall(p) /\ nextUid <= MaxTasks /\ queue_lock = None
  /\ queue_lock' = p
  /\ Enter(p, "enqueue", [request_id |-> r])
  /\ UNCHANGED <<tasks, cancel_flags, done, inference_lock, wpc, cur, racy, dpc,
                 nextUid, started, finished, skipped, lastOutcome>>
  /\ UNCHANGED <<cacheVars, tokVars>>

\* tasks.emplace(...), line 52
\* mutant of Emplace: the task is put at the front of the queue
EmplaceFront(q, r, uid) ==
  <<[rid |-> r, uid |-> uid, cancelled |-> FALSE, late |-> FALSE]>> \o q

\* rid is the request id; uid numbers the tasks in the order they were appended;
\* cancelled and late are history: a cancel of rid completed while the task was
\* queued, or arrived while its body was running
Emplace(q, r, uid) ==
  Append(q, [rid |-> r, uid |-> uid, cancelled |-> FALSE, late |-> FALSE])

\* enqueue, lines 49-53: append the task, cond_var.notify_one() under the lock
EnqueueBody(p) ==
  /\ pc[p] = "enqueue"
  /\ tasks' = Emplace(tasks, arg[p].request_id, nextUid)
  /\ nextUid' = nextUid + 1
  /\ wpc' = NotifyWorker(wpc)
  /\ Goto(p, "enqueue_ret") /\ ret' = ret
  /\ UNCHANGED <<cancel_flags, done, queue_lock, inference_lock, cur, racy, dpc,
                 started, finished, skipped, lastOutcome>>
  /\ UNCHANGED <<cacheVars, tokVars>>

\* enqueue, line 54: the lock_guard unlocks
EnqueueReturn(p) ==
  /\ pc[p] = "enqueue_ret"
  /\ queue_lock' = None
  /\ Leave(p)
  /\ UNCHANGED <<tasks, cancel_flags, done, inference_lock, wpc, cur, racy, dpc,
                 nextUid, started, finished, skipped, lastOutcome>>
  /\ UNCHANGED <<cacheVars, tokVars>>

\* cancel, line 58
CancelLock(p, r) ==
  /\ CanCall(p) /\ queue_lock = None
  /\ queue_lock' = p
  /\ Enter(p, "cancel", [request_id |-> r])
  /\ UNCHANGED <<tasks, cancel_flags, done, inference_lock, wpc, cur, racy, dpc,
                 nextUid, started, finished, skipped, lastOutcome>>
  /\ UNCHANGED <<cacheVars, tokVars>>

\* cancel, line 59: cancel_flags[request_id] = true
SetFlag(flags, r) == flags \cup {r}

\* history only: remember which queued tasks a completed cancel(r) covers
MarkCancelled(q, r) ==
  [i \in 1..Len(q) |-> IF q[i].rid = r THEN [q[i] EXCEPT !.cancelled = TRUE] ELSE q[i]]

\* cancel, line 59.  The worker reads cancel_flags under inference_lock, not
\* queue_lock: a write made while the worker is inside its check is a data race.
CancelBody(p) ==
  /\ pc[p] = "cancel"
  /\ cancel_flags' = SetFlag(cancel_flags, arg[p].request_id)
  /\ racy' = (racy \/ wpc = "w_ck")
  /\ tasks' = MarkCancelled(tasks, arg[p].request_id)
  /\ cur' = IF wpc = "w_body" /\ cur.rid = arg[p].request_id
              THEN [cur EXCEPT !.late = TRUE] ELSE cur
  /\ Goto(p, "cancel_unlock") /\ ret' = ret
  /\ UNCHANGED <<done, queue_lock, inference_lock, wpc, dpc,
                 nextUid, started, finished, skipped, lastOutcome>>
  /\ UNCHANGED <<cacheVars, tokVars>>

\* cancel, line 60: end of the lock scope
CancelUnlock(p) ==
  /\ pc[p] = "cancel_unlock"
  /\ queue_lock' = None
  /\ Goto(p, "cancel_notify") /\ ret' = ret
  /\ UNCHANGED <<tasks, cancel_flags, done, inference_lock, wpc, cur, racy, dpc,
                 nextUid, started, finished, skipped, lastOutcome>>
  /\ UNCHANGED <<cacheVars, tokVars>>

\* cancel, line 61: cond_var.notify_one()
CancelNotify(p) ==
  /\ pc[p] = "cancel_notify"
  /\ wpc' = NotifyWorker(wpc)
  /\ Leave(p)
  /\ UNCHANGED <<tasks, cancel_flags, done, queue_lock, inference_lock, cur, racy, dpc,
                 nextUid, started, finished, skipped, lastOutcome>>
  /\ UNCHANGED <<cacheVars, tokVars>>

\* is_cancelled, line 65
IsCancelledLock(p, r) ==
  /\ CanCall(p) /\ queue_lock = None
  /\ queue_lock' = p
  /\ Enter(p, "is_cancelled", [request_id |-> r])
  /\ UNCHANGED <<tasks, cancel_flags, done, inference_lock, wpc, cur, racy, dpc,
                 nextUid, started, finished, skipped, lastOutcome>>
  /\ UNCHANGED <<cacheVars, tokVars>>

\* lines 66-67 and 238-239: find(id) != end() && cancel_flags[id]
Flagged(flags, r) == r \in flags

\* is_cancelled, lines 66-67.  A read made while the worker is erasing a flag
\* (under the other mutex) is a data race: either answer.
IsCancelledBody(p) ==
  /\ pc[p] = "is_cancelled"
  /\ IF wpc = "w_ck" /\ Flagged(cancel_flags, cur.rid)
       THEN \E b \in BOOLEAN : ret' = [ret EXCEPT ![p] = [cancelled |-> b]]
       ELSE ret' = [ret EXCEPT ![p] =
                          [cancelled |-> Flagged(cancel_flags, arg[p].request_id)]]
  /\ Goto(p, "is_cancelled_ret")
  /\ UNCHANGED <<queueVars, cacheVars, tokVars>>

\* is_cancelled, line 68
IsCancelledReturn(p) ==
  /\ pc[p] = "is_cancelled_ret"
  /\ queue_lock' = None
  /\ Leave(p)
  /\ UNCHANGED <<tasks, cancel_flags, done, inference_lock, wpc, cur, racy, dpc,
                 nextUid, started, finished, skipped, lastOutcome>>
  /\ UNCHANGED <<cacheVars, tokVars>>

(* ------------------------- worker: process_inference -------------------- *)

workerFrame == <<done, dpc, nextUid>>

\* line 216: std::unique_lock queueLock(queue_lock)
WorkerLock ==
  /\ wpc = "w_lock" /\ queue_lock = None
  /\ queue_lock' = "worker" /\ wpc' = "w_pred"
  /\ UNCHANGED <<tasks, cancel_flags, inference_lock, cur, racy, started, finished,
                 skipped, lastOutcome, workerFrame, cacheVars, callVars, tokVars>>

\* line 217: the predicate of cond_var.wait
WaitPredicate == tasks # <<>> \/ done

\* mutant of WorkerDequeue: the queue lock is kept over the cancellation check
WorkerDequeueHolding ==
  /\ wpc = "w_pred" /\ (tasks # <<>> \/ done) /\ ~(done /\ tasks = <<>>)
  /\ cur' = Head(tasks) /\ tasks' = Tail(tasks)
  /\ wpc' = "w_cklock"
  /\ UNCHANGED <<cancel_flags, queue_lock, inference_lock, racy, started, finished,
                 skipped, lastOutcome, done, dpc, nextUid, cacheVars, callVars, tokVars>>

\* lines 217-231: the predicate holds and a task is queued: move the front task
\* out, pop it, leave the lock scope
WorkerDequeue ==
  /\ wpc = "w_pred" /\ WaitPredicate /\ ~(done /\ tasks = <<>>)
  /\ cur' = Head(tasks) /\ tasks' = Tail(tasks)
  /\ queue_lock' = None /\ wpc' = "w_cklock"
  /\ UNCHANGED <<cancel_flags, inference_lock, racy, started, finished,
                 skipped, lastOutcome, workerFrame, cacheVars, callVars, tokVars>>

\* mutant of WorkerExit: if (done) break;
WorkerExitOnDone ==
  /\ wpc = "w_pred" /\ done
  /\ queue_lock' = None /\ wpc' = "w_exit"
  /\ UNCHANGED <<tasks, cancel_flags, inference_lock, cur, racy, started, finished,
                 skipped, lastOutcome, workerFrame, cacheVars, callVars, tokVars>>

\* lines 219-221: if (done && tasks.empty()) break;
WorkerExit ==
  /\ wpc = "w_pred" /\ WaitPredicate /\ done /\ tasks = <<>>
  /\ queue_lock' = None /\ wpc' = "w_exit"
  /\ UNCHANGED <<tasks, cancel_flags, inference_lock, cur, racy, started, finished,
                 skipped, lastOutcome, workerFrame, cacheVars, callVars, tokVars>>

\* line 217: the predicate is false; the thread is about to block
WorkerMustWait ==
  /\ wpc = "w_pred" /\ ~WaitPredicate
  /\ wpc' = "w_block"
  /\ UNCHANGED <<tasks, cancel_flags, queue_lock, inference_lock, cur, racy, started,
                 finished, skipped, lastOutcome, workerFrame, cacheVars, callVars, tokVars>>

\* line 217: wait() unlocks the mutex and blocks, atomically
WorkerBlock ==
  /\ wpc = "w_block"
  /\ queue_lock' = None /\ wpc' = "w_wait"
  /\ UNCHANGED <<tasks, cancel_flags, inference_lock, cur, racy, started, finished,
                 skipped, lastOutcome, workerFrame, cacheVars, callVars, tokVars>>

\* a condition variable may wake without a notification
WorkerSpuriousWake ==
  /\ wpc = "w_wait"
  /\ wpc' = "w_woken"
  /\ UNCHANGED <<tasks, cancel_flags, queue_lock, inference_lock, cur, racy, started,
                 finished, skipped, lastOutcome, workerFrame, cacheVars, callVars, tokVars>>

\* line 217: woken, wait() locks the mutex again and evaluates the predicate
WorkerRelock ==
  /\ wpc = "w_woken" /\ queue_lock = None
  /\ queue_lock' = "worker" /\ wpc' = "w_pred"
  /\ UNCHANGED <<tasks, cancel_flags, inference_lock, cur, racy, started, finished,
                 skipped, lastOutcome, workerFrame, cacheVars, callVars, tokVars>>

\* line 237: std::lock_guard inferenceLock(inference_lock)
WorkerCheckLock ==
  /\ wpc = "w_cklock" /\ inference_lock = None
  /\ inference_lock' = "worker" /\ wpc' = "w_ck"
  /\ UNCHANGED <<tasks, cancel_flags, queue_lock, cur, racy, started, finished,
                 skipped, lastOutcome, workerFrame, cacheVars, callVars, tokVars>>

\* a thread is writing cancel_flags under queue_lock while the worker checks it
\* under inference_lock
WriterInSection ==
  racy \/ (\E p \in Producers : pc[p] = "cancel") \/ dpc = "d_clear"

\* lines 238-239: what the check can read
CheckOutcomes(flags, r) ==
  IF WriterInSection THEN BOOLEAN ELSE {Flagged(flags, r)}

\* line 242: cancel_flags.erase(current_request_id)
EraseFlag(flags, r) == flags \ {r}

\* lines 238-244: the flag is set: erase it and `continue` (back to line 210)
WorkerSkip ==
  /\ wpc = "w_ck" /\ TRUE \in CheckOutcomes(cancel_flags, cur.rid)
  /\ cancel_flags' = EraseFlag(cancel_flags, cur.rid)
  /\ skipped' = skipped \cup {cur.uid}
  /\ inference_lock' = None /\ racy' = FALSE
  /\ wpc' = "w_lock" /\ cur' = Nil
  /\ UNCHANGED <<tasks, queue_lock, started, finished, lastOutcome,
                 workerFrame, cacheVars, callVars, tokVars>>

\* mutant of WorkerStart: the body is called inside the inference_lock scope
WorkerStartHolding ==
  /\ wpc = "w_ck"
  /\ FALSE \in (IF racy \/ (\E p \in Producers : pc[p] = "cancel") \/ dpc = "d_clear"
                  THEN BOOLEAN ELSE {cur.rid \in cancel_flags})
  /\ started' = Append(started, cur.uid)
  /\ racy' = FALSE
  /\ wpc' = "w_body"
  /\ UNCHANGED <<tasks, cancel_flags, queue_lock, inference_lock, cur, finished, skipped,
                 lastOutcome, done, dpc, nextUid, cacheVars, callVars, tokVars>>

\* lines 238-252: the flag is not set: leave the lock scope and call the body
WorkerStart ==
  /\ wpc = "w_ck" /\ FALSE \in CheckOutcomes(cancel_flags, cur.rid)
  /\ started' = Append(started, cur.uid)
  /\ inference_lock' = None /\ racy' = FALSE
  /\ wpc' = "w_body"
  /\ UNCHANGED <<tasks, cancel_flags, queue_lock, cur, finished, skipped, lastOutcome,
                 workerFrame, cacheVars, callVars, tokVars>>

Outcomes == {"ok", "throw"}

\* mutant of AfterBody: an exception leaves process_inference and ends the thread
AfterBodyUncaught(outcome) == IF outcome = "throw" THEN "w_terminated" ELSE "w_notify"

\* lines 251-259: try { body } catch (std::exception) {...} catch (...) {...}:
\* where the worker goes on after the body ended with `outcome`
AfterBody(outcome) == "w_notify"

\* mutant of WorkerBody: the flag is looked at again while the body runs, and a
\* cancelled body is abandoned
WorkerBodyPreempted ==
  /\ wpc = "w_body"
  /\ IF Flagged(cancel_flags, cur.rid)
       THEN /\ skipped' = skipped \cup {cur.uid}
            /\ wpc' = "w_lock"
            /\ UNCHANGED <<finished, lastOutcome>>
       ELSE /\ \E outcome \in Outcomes :
                 /\ finished' = Append(finished, cur.uid)
                 /\ lastOutcome' = outcome
                 /\ wpc' = "w_notify"
            /\ skipped' = skipped
  /\ UNCHANGED <<tasks, cancel_flags, queue_lock, inference_lock, cur, racy, started,
                 workerFrame, cacheVars, callVars, tokVars>>

\* line 252: the body returns or throws
WorkerBody ==
  /\ wpc = "w_body"
  /\ \E outcome \in Outcomes :
       /\ finished' = Append(finished, cur.uid)
       /\ lastOutcome' = outcome
       /\ wpc' = AfterBody(outcome)
  /\ UNCHANGED <<tasks, cancel_flags, queue_lock, inference_lock, cur, racy, started,
                 skipped, workerFrame, cacheVars, callVars, tokVars>>

\* mutant of WorkerNotify: the iteration ends without the notification
WorkerNotifySilent ==
  /\ wpc = "w_notify"
  /\ wpc' = "w_lock" /\ cur' = Nil
  /\ UNCHANGED <<tasks, cancel_flags, queue_lock, inference_lock, racy, started,
                 finished, skipped, lastOutcome, workerFrame, callVars, tokVars>>
  /\ UNCHANGED <<cached_models, models_lock, jpc, now, swept, released>>

\* line 263: cleanup_cond_var.notify_one(), then the next iteration
WorkerNotify ==
  /\ wpc = "w_notify"
  /\ jpc' = NotifyJanitor(jpc)
  /\ wpc' = "w_lock" /\ cur' = Nil
  /\ UNCHANGED <<tasks, cancel_flags, queue_lock, inference_lock, racy, started,
                 finished, skipped, lastOutcome, workerFrame, callVars, tokVars>>
  /\ UNCHANGED <<cached_models, models_lock, now, swept, released>>

\* the worker's wait for work or shutdown
WorkerIdle ==
  \/ WorkerLock \/ WorkerMustWait \/ WorkerBlock \/ WorkerSpuriousWake
  \/ WorkerRelock \/ WorkerExit

\* the worker's handling of one task
WorkerTask ==
  \/ WorkerDequeue \/ WorkerCheckLock \/ WorkerSkip
  \/ WorkerStart \/ WorkerBody \/ WorkerNotify

(* --------------------- janitor: cleanup_inactive_models ----------------- *)

janitorFrame == <<cached_models, now, swept, released, queueVars, callVars, tokVars>>

\* mutant of JanitorLoopTest: while (true)
JanitorLoopForever ==
  /\ jpc = "j_top"
  /\ jpc' = "j_lock"
  /\ UNCHANGED <<models_lock, janitorFrame>>

\* line 171: while (!done)
JanitorLoopTest ==
  /\ jpc = "j_top"
  /\ jpc' = IF done THEN "j_exit" ELSE "j_lock"
  /\ UNCHANGED <<models_lock, janitorFrame>>

\* line 174: std::unique_lock lock(models_lock)
JanitorLock ==
  /\ jpc = "j_lock" /\ models_lock = None
  /\ models_lock' = "janitor" /\ jpc' = "j_pred"
  /\ UNCHANGED janitorFrame

\* lines 177-178: wait_for(lock, 5s, pred) tests the predicate `done` before it
\* waits, and returns at once if it holds
JanitorPredicate ==
  /\ jpc = "j_pred"
  /\ jpc' = IF done THEN "j_scan" ELSE "j_block"
  /\ UNCHANGED <<models_lock, janitorFrame>>

\* wait_for unlocks the mutex and blocks, atomically
JanitorBlock ==
  /\ jpc = "j_block"
  /\ models_lock' = None /\ jpc' = "j_wait"
  /\ UNCHANGED janitorFrame

\* the 5 seconds of wait_for expire
JanitorTimeout ==
  /\ jpc = "j_wait"
  /\ jpc' = "j_tmo"
  /\ UNCHANGED <<models_lock, janitorFrame>>

\* a condition variable may wake without a notification
JanitorSpuriousWake ==
  /\ jpc = "j_wait"
  /\ jpc' = "j_woken"
  /\ UNCHANGED <<models_lock, janitorFrame>>

\* woken before the timeout: wait_for locks the mutex again
JanitorRelock ==
  /\ jpc = "j_woken" /\ models_lock = None
  /\ models_lock' = "janitor" /\ jpc' = "j_repred"
  /\ UNCHANGED janitorFrame

\* lines 177-178: the woken wait_for tests the predicate `done` again: it returns
\* if it holds, and goes back to waiting for the rest of the 5 seconds if not
JanitorRecheck ==
  /\ jpc = "j_repred"
  /\ jpc' = IF done THEN "j_scan" ELSE "j_block"
  /\ UNCHANGED <<models_lock, janitorFrame>>

\* timed out: wait_for locks the mutex again and returns
JanitorTimedOutRelock ==
  /\ jpc = "j_tmo" /\ models_lock = None
  /\ models_lock' = "janitor" /\ jpc' = "j_scan"
  /\ UNCHANGED janitorFrame

\* lines 181-204: one scan of cached_models
JanitorScan ==
  /\ jpc = "j_scan"
  /\ cached_models' = SweepOnce(cached_models, now)
  /\ swept' = {p \in Paths : Present(cached_models, p) /\ ~Present(cached_models', p)}
  /\ released' = released \cup SweepFrees(cached_models, now)
  /\ jpc' = "j_unlock"
  /\ UNCHANGED <<models_lock, now, queueVars, callVars, tokVars>>

\* line 205: end of the lock scope
JanitorUnlock ==
  /\ jpc = "j_unlock"
  /\ models_lock' = None /\ jpc' = "j_top"
  /\ swept' = {}
  /\ UNCHANGED <<cached_models, now, released, queueVars, callVars, tokVars>>

Janitor ==
  \/ JanitorLoopTest \/ JanitorLock \/ JanitorPredicate \/ JanitorBlock
  \/ JanitorTimeout \/ JanitorSpuriousWake \/ JanitorRelock \/ JanitorRecheck
  \/ JanitorTimedOutRelock \/ JanitorScan \/ JanitorUnlock

(* ---------------------------- ~InferenceQueue --------------------------- *)

dtorQueueFrame == <<tasks, cur, nextUid, started, finished, skipped, lastOutcome>>

\* line 18; the object is destroyed when no call on it is running
DtorLockQueue ==
  /\ dpc = "alive" /\ \A p \in Producers : pc[p] = "idle"
  /\ queue_lock = None
  /\ queue_lock' = "owner" /\ dpc' = "d_clear"
  /\ UNCHANGED <<cancel_flags, done, inference_lock, wpc, racy, dtorQueueFrame,
                 cacheVars, callVars, tokVars>>

\* lines 19-20: cancel_flags.clear(), end of the lock scope
DtorClearFlags ==
  /\ dpc = "d_clear"
  /\ cancel_flags' = {}
  /\ racy' = (racy \/ wpc = "w_ck")
  /\ queue_lock' = None /\ dpc' = "d_locki"
  /\ UNCHANGED <<done, inference_lock, wpc, dtorQueueFrame,
                 cacheVars, callVars, tokVars>>

\* line 22
DtorLockInference ==
  /\ dpc = "d_locki" /\ inference_lock = None
  /\ inference_lock' = "owner" /\ dpc' = "d_done"
  /\ UNCHANGED <<cancel_flags, done, queue_lock, wpc, racy, dtorQueueFrame,
                 cacheVars, callVars, tokVars>>

\* lines 23-24: done = true, end of the lock scope
DtorSetDone ==
  /\ dpc = "d_done"
  /\ done' = TRUE
  /\ inference_lock' = None /\ dpc' = "d_notify_worker"
  /\ UNCHANGED <<cancel_flags, queue_lock, wpc, racy, dtorQueueFrame,
                 cacheVars, callVars, tokVars>>

\* line 25: cond_var.notify_one()
DtorNotifyWorker ==
  /\ dpc = "d_notify_worker"
  /\ wpc' = NotifyWorker(wpc)
  /\ dpc' = "d_notify_janitor"
  /\ UNCHANGED <<cancel_flags, done, queue_lock, inference_lock, racy, dtorQueueFrame,
                 cacheVars, callVars, tokVars>>

\* line 26: cleanup_cond_var.notify_one()
DtorNotifyJanitor ==
  /\ dpc = "d_notify_janitor"
  /\ jpc' = NotifyJanitor(jpc)
  /\ dpc' = "d_join_worker"
  /\ UNCHANGED <<cancel_flags, done, queue_lock, inference_lock, wpc, racy,
                 dtorQueueFrame, callVars, tokVars>>
  /\ UNCHANGED <<cached_models, models_lock, now, swept, released>>

\* lines 28-30: worker.join()
DtorJoinWorker ==
  /\ dpc = "d_join_worker" /\ wpc = "w_exit"
  /\ dpc' = "d_join_janitor"
  /\ UNCHANGED <<cancel_flags, done, queue_lock, inference_lock, wpc, racy,
                 dtorQueueFrame, cacheVars, callVars, tokVars>>

\* lines 32-34: cleanup_thread.join()
DtorJoinJanitor ==
  /\ dpc = "d_join_janitor" /\ jpc = "j_exit"
  /\ dpc' = "d_lockm"
  /\ UNCHANGED <<cancel_flags, done, queue_lock, inference_lock, wpc, racy,
                 dtorQueueFrame, cacheVars, callVars, tokVars>>

\* line 37
DtorLockModels ==
  /\ dpc = "d_lockm" /\ models_lock = None
  /\ models_lock' = "owner" /\ dpc' = "d_free"
  /\ UNCHANGED <<cancel_flags, done, queue_lock, inference_lock, wpc, racy,
                 dtorQueueFrame, callVars, tokVars>>
  /\ UNCHANGED <<cached_models, jpc, now, swept, released>>

\* lines 38-44: free what is left, clear the map, unlock
DtorFreeModels ==
  /\ dpc = "d_free"
  /\ cached_models' = DestructorFree(cached_models)
  /\ released' = released \cup DestructorFrees(cached_models)
  /\ models_lock' = None /\ dpc' = "d_end"
  /\ UNCHANGED <<cancel_flags, done, queue_lock, inference_lock, wpc, racy,
                 dtorQueueFrame, callVars, tokVars>>
  /\ UNCHANGED <<jpc, now, swept>>

\* lines 17-30: shutdown of the worker
DtorShutdown ==
  \/ DtorLockQueue \/ DtorClearFlags \/ DtorLockInference \/ DtorSetDone
  \/ DtorNotifyWorker \/ DtorNotifyJanitor \/ DtorJoinWorker

\* lines 32-44: the janitor is joined and the cache torn down
DtorTeardown ==
  \/ DtorJoinJanitor \/ DtorLockModels \/ DtorFreeModels


(* ---------------------------- model cache calls ------------------------- *)

cacheCallFrame == <<jpc, now, swept, released, queueVars, tokVars>>

\* what a loader can hand to register_model: a model and a context that are
\* allocated now, so no pair the cache holds under some path
LiveElsewhere(cm, pair) == \A q \in Paths : Present(cm, q) => PairOf(cm[q]) # pair

\* line 72: std::lock_guard lock(models_lock).  The allocator may hand out again
\* what was released: such a pair is no longer a released one.
RegisterLock(p, path, pair) ==
  /\ CanCall(p) /\ models_lock = None
  /\ LiveElsewhere(cached_models, pair)
  /\ models_lock' = p
  /\ released' = released \ {pair}
  /\ Enter(p, "register_model", [path |-> path, model |-> pair[1], ctx |-> pair[2]])
  /\ UNCHANGED <<cached_models, jpc, now, swept, queueVars, tokVars>>

\* lines 75-86
RegisterBody(p) ==
  /\ pc[p] = "register_model"
  /\ cached_models' =
       register_model(cached_models, arg[p].path, arg[p].model, arg[p].ctx, now)
  /\ Goto(p, "register_model_ret") /\ ret' = ret
  /\ UNCHANGED <<models_lock, cacheCallFrame>>

\* line 91; active_users is an int: the model stops counting at MaxUsers
GetLock(p, path) ==
  /\ CanCall(p) /\ models_lock = None
  /\ Present(cached_models, path) => cached_models[path].active_users < MaxUsers
  /\ models_lock' = p
  /\ Enter(p, "get_cached_model", [path |-> path])
  /\ UNCHANGED <<cached_models, cacheCallFrame>>

\* lines 93-106
GetBody(p) ==
  /\ pc[p] = "get_cached_model"
  /\ ret' = [ret EXCEPT ![p] =
              [handles |-> get_cached_model_result(cached_models, arg[p].path)]]
  /\ cached_models' = get_cached_model(cached_models, arg[p].path, now)
  /\ Goto(p, "get_cached_model_ret")
  /\ UNCHANGED <<models_lock, cacheCallFrame>>

\* line 110
MarkUsedLock(p, path) ==
  /\ CanCall(p) /\ models_lock = None
  /\ models_lock' = p
  /\ Enter(p, "mark_model_used", [path |-> path])
  /\ UNCHANGED <<cached_models, cacheCallFrame>>

\* lines 112-115
MarkUsedBody(p) ==
  /\ pc[p] = "mark_model_used"
  /\ cached_models' = mark_model_used(cached_models, arg[p].path, now)
  /\ Goto(p, "mark_model_used_ret") /\ ret' = ret
  /\ UNCHANGED <<models_lock, cacheCallFrame>>

\* line 119
IncrementLock(p, path) ==
  /\ CanCall(p) /\ models_lock = None
  /\ Present(cached_models, path) => cached_models[path].active_users < MaxUsers
  /\ models_lock' = p
  /\ Enter(p, "increment_model_users", [path |-> path])
  /\ UNCHANGED <<cached_models, cacheCallFrame>>

\* lines 121-126
IncrementBody(p) ==
  /\ pc[p] = "increment_model_users"
  /\ cached_models' = increment_model_users(cached_models, arg[p].path)
  /\ Goto(p, "increment_model_users_ret") /\ ret' = ret
  /\ UNCHANGED <<models_lock, cacheCallFrame>>

\* line 130; `before` is history: the count the call finds, -1 for no entry
DecrementLock(p, path) ==
  /\ CanCall(p) /\ models_lock = None
  /\ models_lock' = p
  /\ Enter(p, "decrement_model_users",
           [path |-> path,
            before |-> IF Present(cached_models, path)
                         THEN cached_models[path].active_users ELSE -1])
  /\ UNCHANGED <<cached_models, cacheCallFrame>>

\* lines 132-141
DecrementBody(p) ==
  /\ pc[p] = "decrement_model_users"
  /\ cached_models' = decrement_model_users(cached_models, arg[p].path, now)
  /\ Goto(p, "decrement_model_users_ret") /\ ret' = ret
  /\ UNCHANGED <<models_lock, cacheCallFrame>>

\* line 268
ClearLock(p, force_clear) ==
  /\ CanCall(p) /\ models_lock = None
  /\ models_lock' = p
  /\ Enter(p, "clear_model_cache", [force_clear |-> force_clear])
  /\ UNCHANGED <<cached_models, cacheCallFrame>>

\* lines 270-292
ClearBody(p) ==
  /\ pc[p] = "clear_model_cache"
  /\ cached_models' = clear_model_cache(cached_models, arg[p].force_clear)
  /\ released' = released \cup ClearFrees(cached_models, arg[p].force_clear)
  /\ Goto(p, "clear_model_cache_ret") /\ ret' = ret
  /\ UNCHANGED <<models_lock, jpc, now, swept, queueVars, tokVars>>

CacheReturnPoints ==
  {"register_model_ret", "get_cached_model_ret", "mark_model_used_ret",
   "increment_model_users_ret", "decrement_model_users_ret", "clear_model_cache_ret"}

\* the lock_guard of a cache call unlocks as the call returns
CacheReturn(p) ==
  /\ pc[p] \in CacheReturnPoints
  /\ models_lock' = None
  /\ Leave(p)
  /\ UNCHANGED <<cached_models, cacheCallFrame>>

\* check_inactive_models, lines 144-146
CheckInactiveModels(p) ==
  /\ CanCall(p)
  /\ jpc' = NotifyJanitor(jpc)
  /\ UNCHANGED <<cached_models, models_lock, now, swept, released, queueVars, callVars, tokVars>>

\* a second passes on the steady clock
Tick ==
  /\ now < MaxTime
  /\ now' = now + 1
  /\ UNCHANGED <<cached_models, models_lock, jpc, swept, released, queueVars, callVars, tokVars>>

(* --------------- tokenizer cache: fllama_tokenize.cpp ------------------- *)

\* cleanup_cache, lines 101-107: the keys collected in to_erase
Expired(mc, t) ==
  {p \in Paths : Present(mc, p) /\ t - mc[p].last_access > TOKENIZER_CACHE_TTL_SEC}

\* mutant of cleanup_cache: nothing is evicted
cleanup_cache_keeping(mc, t) == mc

\* cleanup_cache, lines 97-112
cleanup_cache(mc, t) ==
  [p \in Paths |-> IF p \in Expired(mc, t) THEN NoEntry ELSE mc[p]]

\* what llama_load_model_from_file can return on its n-th call: a new model, or
\* nullptr
LoadResults(n) == {n, 0}

\* _get_or_load_model, lines 118-149: the cache after serving `path` at time t,
\* given what a load returns
ServeCache(mc, path, t, loaded) ==
  IF Present(mc, path)
    THEN [mc EXCEPT ![path].last_access = t]
    ELSE IF loaded = 0 THEN mc
         ELSE [mc EXCEPT ![path] = [model |-> loaded, last_access |-> t]]

\* _get_or_load_model, lines 118-149: the model returned
ServeResult(mc, path, loaded) ==
  IF Present(mc, path) THEN mc[path].model ELSE loaded

tokFrame == <<queueVars, callVars, cached_models, models_lock, jpc, swept, released>>

\* _get_or_load_model, lines 115-116: lock cache_mutex, cleanup_cache()
TokEnter(path) ==
  /\ tokpc = "idle"
  /\ Present(model_cache, path) \/ tokLoads < TokMaxLoads
  /\ model_cache' = cleanup_cache(model_cache, now)
  /\ tokarg' = [path |-> path,
                old |-> IF Present(model_cache, path) THEN model_cache[path].model ELSE 0,
                expired |-> path \in Expired(model_cache, now)]
  /\ tokpc' = "serve"
  /\ UNCHANGED <<tokret, tokLoads, now, tokFrame>>

\* lines 118-121: the path is cached
TokHit ==
  /\ tokpc = "serve" /\ Present(model_cache, tokarg.path)
  /\ model_cache' = ServeCache(model_cache, tokarg.path, now, 0)
  /\ tokret' = [model |-> ServeResult(model_cache, tokarg.path, 0)]
  /\ tokpc' = "return"
  /\ UNCHANGED <<tokarg, tokLoads, now, tokFrame>>

\* lines 122-148: the path is not cached: load the model, insert it unless the
\* load failed
TokLoad ==
  /\ tokpc = "serve" /\ ~Present(model_cache, tokarg.path)
  /\ \E loaded \in LoadResults(tokLoads + 1) :
       /\ model_cache' = ServeCache(model_cache, tokarg.path, now, loaded)
       /\ tokret' = [model |-> ServeResult(model_cache, tokarg.path, loaded)]
  /\ tokLoads' = tokLoads + 1
  /\ tokpc' = "return"
  /\ UNCHANGED <<tokarg, now, tokFrame>>

\* line 150: the lock_guard unlocks, the caller takes the result
TokReturn ==
  /\ tokpc = "return"
  /\ tokpc' = "idle" /\ tokarg' = Nil /\ tokret' = Nil
  /\ UNCHANGED <<model_cache, tokLoads, now, tokFrame>>

\* a second passes on the steady clock
TokTick ==
  /\ now < TokMaxTime
  /\ now' = now + 1
  /\ UNCHANGED <<tokVars, tokFrame>>

(* ------------------------------ specifications -------------------------- *)

QueueCalls ==
  \E p \in Producers :
    \/ \E r \in ReqIds : EnqueueLock(p, r)
    \/ EnqueueBody(p)
    \/ EnqueueReturn(p)
    \/ \E r \in ReqIds : CancelLock(p, r)
    \/ CancelBody(p)
    \/ CancelUnlock(p)
    \/ CancelNotify(p)
    \/ \E r \in ReqIds : IsCancelledLock(p, r)
    \/ IsCancelledBody(p)
    \/ IsCancelledReturn(p)

\* the model cache has one mutex: one caller thread shows every interleaving of
\* a call with the janitor and the destructor
CacheCallers == {"p1"}

CacheCalls ==
  \E p \in CacheCallers :
    \/ \E path \in Paths, pair \in LoadedPairs : RegisterLock(p, path, pair)
    \/ RegisterBody(p)
    \/ \E path \in Paths : GetLock(p, path)
    \/ GetBody(p)
    \/ \E path \in Paths : MarkUsedLock(p, path)
    \/ MarkUsedBody(p)
    \/ \E path \in Paths : IncrementLock(p, path)
    \/ IncrementBody(p)
    \/ \E path \in Paths : DecrementLock(p, path)
    \/ DecrementBody(p)
    \/ \E f \in BOOLEAN : ClearLock(p, f)
    \/ ClearBody(p)
    \/ CacheReturn(p)
    \/ CheckInactiveModels(p)

\* The queue side: enqueue, cancel and is_cancelled calls, the worker, and the
\* destructor up to worker.join().  The janitor thread and the cache are left to
\* SpecCache: here the janitor stays where the constructor started it.
NextQueue == QueueCalls \/ WorkerIdle \/ WorkerTask \/ DtorShutdown
SpecQueue == Init /\ [][NextQueue]_vars

\* The cache side: the cache calls, the clock, the janitor, the whole destructor,
\* and the worker, which has no task to run.
NextCache == CacheCalls \/ Tick \/ WorkerIdle \/ Janitor \/ DtorShutdown \/ DtorTeardown
SpecCache == Init /\ [][NextCache]_vars

\* SpecCache with the scheduling the claims about progress assume.  The janitor
\* is scheduled fairly and gets models_lock when it asks for it often enough; the
\* deadline of its wait_for is absolute, so wakes do not put it off; a thread
\* inside a call, the worker and the destructor once started keep running.  No
\* call has to be made, the clock need not advance, no wake is spurious.
JanitorSteps ==
  \/ JanitorLoopTest \/ JanitorLock \/ JanitorPredicate \/ JanitorBlock
  \/ JanitorRelock \/ JanitorRecheck \/ JanitorTimedOutRelock \/ JanitorScan
  \/ JanitorUnlock

CallerSteps ==
  \E p \in CacheCallers :
    \/ RegisterBody(p) \/ GetBody(p) \/ MarkUsedBody(p) \/ IncrementBody(p)
    \/ DecrementBody(p) \/ ClearBody(p) \/ CacheReturn(p)

WorkerSteps ==
  WorkerLock \/ WorkerMustWait \/ WorkerBlock \/ WorkerRelock \/ WorkerExit

DtorSteps ==
  \/ DtorClearFlags \/ DtorLockInference \/ DtorSetDone \/ DtorNotifyWorker
  \/ DtorNotifyJanitor \/ DtorJoinWorker \/ DtorJoinJanitor \/ DtorLockModels
  \/ DtorFreeModels

FairSpecCache ==
  /\ SpecCache
  /\ SF_vars(JanitorSteps) /\ SF_vars(JanitorTimeout)
  /\ WF_vars(CallerSteps) /\ WF_vars(WorkerSteps) /\ WF_vars(DtorSteps)

\* The cache while the queue lives: the cache calls, the clock, and the janitor
\* woken by notifications and by the timeout of its wait_for only.
NextSweep == CacheCalls \/ Tick \/ JanitorSteps \/ JanitorTimeout
SpecSweep == Init /\ [][NextSweep]_vars

\* The shutdown protocol: one caller that enqueues and cancels, the worker, the
\* janitor and the whole destructor.
ShutdownCallers == {"p1"}

ShutdownCalls ==
  \E p \in ShutdownCallers :
    \/ \E r \in ReqIds : EnqueueLock(p, r)
    \/ EnqueueBody(p)
    \/ EnqueueReturn(p)
    \/ \E r \in ReqIds : CancelLock(p, r)
    \/ CancelBody(p)
    \/ CancelUnlock(p)
    \/ CancelNotify(p)

NextShutdown ==
  ShutdownCalls \/ WorkerIdle \/ WorkerTask \/ Janitor \/ DtorShutdown \/ DtorTeardown
SpecShutdown == Init /\ [][NextShutdown]_vars

\* every step of the worker but a spurious wake: a thread that can run does run,
\* and every task body terminates
WorkerRuns == WorkerSteps \/ WorkerTask

\* a caller inside enqueue or cancel goes on to its return
ShutdownCallerSteps ==
  \E p \in ShutdownCallers :
    \/ EnqueueBody(p) \/ EnqueueReturn(p)
    \/ CancelBody(p) \/ CancelUnlock(p) \/ CancelNotify(p)

\* SpecShutdown with fair scheduling of every thread.  The janitor's wait_for
\* times out; no wake is spurious; the destructor need not be started, but once
\* started it keeps running.
FairSpecShutdown ==
  /\ SpecShutdown
  /\ WF_vars(WorkerRuns) /\ WF_vars(ShutdownCallerSteps) /\ WF_vars(DtorSteps)
  /\ SF_vars(JanitorSteps) /\ SF_vars(JanitorTimeout)

\* Every thread at once: one caller thread that makes any call, queue or cache,
\* the worker, the janitor and the destructor.  The clock stands still and the
\* cache calls are made for one path.
LockCallers == {"p1"}

\* one path and one handle pair are enough to take every lock in every way
LockPaths == {"a.gguf"}
LockPairs == {<<MaxHandle, MaxHandle>>}

LockCalls ==
  \E p \in LockCallers :
    \/ \E r \in ReqIds : EnqueueLock(p, r)
    \/ EnqueueBody(p)
    \/ EnqueueReturn(p)
    \/ \E r \in ReqIds : CancelLock(p, r)
    \/ CancelBody(p)
    \/ CancelUnlock(p)
    \/ CancelNotify(p)
    \/ \E r \in ReqIds : IsCancelledLock(p, r)
    \/ IsCancelledBody(p)
    \/ IsCancelledReturn(p)
    \/ \E path \in LockPaths, pair \in LockPairs : RegisterLock(p, path, pair)
    \/ RegisterBody(p)
    \/ \E path \in LockPaths : GetLock(p, path)
    \/ GetBody(p)
    \/ \E path \in LockPaths : MarkUsedLock(p, path)
    \/ MarkUsedBody(p)
    \/ \E path \in LockPaths : IncrementLock(p, path)
    \/ IncrementBody(p)
    \/ \E path \in LockPaths : DecrementLock(p, path)
    \/ DecrementBody(p)
    \/ \E f \in BOOLEAN : ClearLock(p, f)
    \/ ClearBody(p)
    \/ CacheReturn(p)
    \/ CheckInactiveModels(p)

NextLocks ==
  LockCalls \/ WorkerIdle \/ WorkerTask \/ Janitor \/ DtorShutdown \/ DtorTeardown
SpecLocks == Init /\ [][NextLocks]_vars

\* The tokenizer cache: _get_or_load_model calls and the clock.
NextTok == (\E path \in Paths : TokEnter(path)) \/ TokHit \/ TokLoad \/ TokReturn \/ TokTick
SpecTok == Init /\ [][NextTok]_vars

\* everything
Next ==
  \/ QueueCalls \/ CacheCalls \/ Tick \/ WorkerIdle \/ WorkerTask \/ Janitor
  \/ DtorShutdown \/ DtorTeardown
Spec == Init /\ [][Next]_vars

(* ================================ claims ================================ *)

Last(s) == s[Len(s)]

(* C1: the bodies run in the order in which enqueue appended their tasks (uid
   numbers the appends): the uids of the bodies started are strictly
   increasing, so no task runs twice and none overtakes an earlier one, and
   every body but the one now running has ended before the next one started. *)
C1_FifoOrder ==
  /\ \A i, j \in 1..Len(started) : i < j => started[i] < started[j]
  /\ \A i \in 1..Len(finished) : finished[i] = started[i]
  /\ Len(started) = Len(finished) + (IF wpc = "w_body" THEN 1 ELSE 0)

\* three tasks were appended, the second was skipped, the first and third ran
C1_Witness ==
  /\ finished = <<1, 3>> /\ skipped = {2}

(* C2: a task that was still queued when a cancel of its request id completed
   never has its body executed. *)
C2_CancelledWhileQueuedNeverRuns ==
  ~(wpc = "w_body" /\ cur.cancelled)

(* C6: once the body of a task has started, a cancel of its request id neither
   stops nor skips it: from a state in which the running task has been cancelled,
   the worker either is still running that body or has just ended it. *)
C6_LateCancelDoesNotPreempt ==
  [][(wpc = "w_body" /\ cur.late) =>
       \/ wpc' = "w_body" /\ cur' = cur /\ started' = started
       \/ /\ wpc' = "w_notify" /\ finished' = Append(finished, cur.uid)
          /\ skipped' = skipped /\ cur' = cur]_vars

\* a body has ended although its request was cancelled while it ran
C6_Witness ==
  /\ wpc = "w_notify" /\ cur.late
  /\ finished # <<>> /\ Last(finished) = cur.uid
  /\ Flagged(cancel_flags, cur.rid)

(* C8: a body that throws ends like one that returns: the worker is at the
   notification that closes the iteration, holding no lock, with the queue and
   the cancellation flags as they were, and whenever the last body threw the
   worker is not dead: it is somewhere in its loop, or has exited on shutdown
   with the queue empty. *)
C8_FailureIsContained ==
  /\ [][(wpc = "w_body" /\ wpc' # "w_body" /\ lastOutcome' = "throw") =>
          /\ wpc' = "w_notify"
          /\ tasks' = tasks /\ cancel_flags' = cancel_flags
          /\ queue_lock' = queue_lock /\ queue_lock # "worker"
          /\ inference_lock' = inference_lock /\ inference_lock # "worker"]_vars
  /\ [](lastOutcome = "throw" =>
          /\ wpc \in {"w_notify", "w_lock", "w_pred", "w_block", "w_wait", "w_woken",
                      "w_cklock", "w_ck", "w_body", "w_exit"}
          /\ wpc = "w_exit" => tasks = <<>>)

\* the body of the first task threw and the body of the second is running
C8_Witness ==
  /\ lastOutcome = "throw" /\ finished = <<1>>
  /\ started = <<1, 2>> /\ wpc = "w_body"


(* --- the model cache --- *)

InUse(cm, p) == Present(cm, p) /\ cm[p].active_users > 0

\* the condition of line 192, at time t
Inactive(cm, p, t) ==
  Present(cm, p) /\ t - cm[p].last_used >= MODEL_INACTIVITY_TIMEOUT_SEC

(* C3: an entry with active_users > 0 is never freed by a janitor scan or by
   clear_model_cache, however long it has been inactive: every step other than
   the destructor's final free leaves such an entry in the cache with its
   handles. *)
C3_InUseNeverFreed ==
  [][\A p \in Paths :
       (InUse(cached_models, p) /\ dpc # "d_free") =>
          /\ Present(cached_models', p)
          /\ PairOf(cached_models'[p]) = PairOf(cached_models[p])]_vars

\* the janitor has just scanned a cache that holds an entry in use and inactive
\* for the whole threshold: the entry is still there
C3_Witness ==
  /\ jpc = "j_unlock"
  /\ \E p \in Paths : InUse(cached_models, p) /\ Inactive(cached_models, p, now)

(* C4: active_users of every cached entry is >= 0 in every reachable state, and
   a decrement_model_users that finds the count at 0 leaves it at 0. *)
C4_ActiveUsersNeverNegative ==
  /\ \A p \in Paths : Present(cached_models, p) => cached_models[p].active_users >= 0
  /\ \A c \in Producers :
       (pc[c] = "decrement_model_users_ret" /\ arg[c].before = 0) =>
          /\ Present(cached_models, arg[c].path)
          /\ cached_models[arg[c].path].active_users = 0

\* a decrement has just run on an entry whose count was 0
C4_Witness ==
  \E c \in Producers :
    /\ pc[c] = "decrement_model_users_ret" /\ arg[c].before = 0
    /\ cached_models[arg[c].path].active_users = 0

(* C7: register_model on a cached path changes nothing of the entry but
   last_used, which becomes now; on an absent path it inserts an entry with the
   handles given and active_users = 0; no other path is touched; and an entry
   appears in the cache only by such a register_model. *)
C7_RegisterKeepsExisting ==
  [][/\ \A c \in Producers :
          (pc[c] = "register_model" /\ pc'[c] = "register_model_ret") =>
             LET path == arg[c].path IN
             /\ Present(cached_models, path) =>
                  cached_models'[path] = [cached_models[path] EXCEPT !.last_used = now]
             /\ ~Present(cached_models, path) =>
                  /\ Present(cached_models', path)
                  /\ PairOf(cached_models'[path]) = <<arg[c].model, arg[c].ctx>>
                  /\ cached_models'[path].active_users = 0
             /\ \A q \in Paths \ {path} : cached_models'[q] = cached_models[q]
     /\ \A q \in Paths :
          (~Present(cached_models, q) /\ Present(cached_models', q)) =>
             \E c \in Producers :
               /\ pc[c] = "register_model" /\ pc'[c] = "register_model_ret"
               /\ arg[c].path = q]_vars

\* register_model has just returned for a path that was cached with other
\* handles and in use: the handles and the count are the old ones, last_used is now
C7_Witness ==
  \E c \in Producers :
    /\ pc[c] = "register_model_ret"
    /\ Present(cached_models, arg[c].path)
    /\ cached_models[arg[c].path].model # arg[c].model
    /\ cached_models[arg[c].path].active_users > 0
    /\ cached_models[arg[c].path].last_used = now /\ now > 0

(* C9: clear_model_cache(force) removes every entry with active_users = 0 or
   force = true and leaves the others as they were: afterwards the cache is empty
   if force is true, and holds exactly the entries that were in use if not. *)
C9_ClearFreesAllWhenForced ==
  [][\A c \in Producers :
       (pc[c] = "clear_model_cache" /\ pc'[c] = "clear_model_cache_ret") =>
          \A q \in Paths :
            cached_models'[q] =
              IF Present(cached_models, q)
                 /\ (cached_models[q].active_users = 0 \/ arg[c].force_clear)
                THEN NoEntry ELSE cached_models[q]]_vars


\* line 192: the entry qualifies for eviction
Qualifies(cm, p, t) ==
  Inactive(cm, p, t) /\ cm[p].active_users = 0

(* C5, as claimed: an entry that qualifies for eviction and is not used again is
   eventually freed while the queue lives, that is by a janitor scan (or a
   clear_model_cache) and not only by the destructor's final free. *)
C5_InactiveEventuallyFreedByJanitor ==
  \A p \in Paths :
    Qualifies(cached_models, p, now) ~>
      \/ ~Present(cached_models, p) /\ dpc # "d_end"
      \/ Present(cached_models, p) /\ ~Qualifies(cached_models, p, now)

(* C5, amended: every janitor scan frees every entry that qualifies for
   eviction, and under fair scheduling an entry that qualifies and is not used
   again is eventually freed, unless the queue is shut down first. *)
C5_InactiveEventuallyFreedUnlessShutdown ==
  /\ [][(jpc = "j_scan" /\ jpc' = "j_unlock") =>
          \A p \in Paths :
            Qualifies(cached_models, p, now) => ~Present(cached_models', p)]_vars
  /\ \A p \in Paths :
       Qualifies(cached_models, p, now) ~>
         (~Qualifies(cached_models, p, now) \/ done)

\* a scan made before any shutdown has just freed an entry
C5_Witness ==
  /\ jpc = "j_unlock" /\ swept # {} /\ ~done


(* --- the tokenizer cache --- *)

\* elapsed.count() > 30 for the entry of q, at the time of the lookup
TokExpired(q) ==
  Present(model_cache, q) /\ now - model_cache[q].last_access > TOKENIZER_CACHE_TTL_SEC

\* the step in which the lookup evicts: every expired entry goes, of any path,
\* and no other
TokEvictsFirst ==
  (tokpc = "idle" /\ tokpc' = "serve") =>
     \A q \in Paths :
       model_cache'[q] = IF TokExpired(q) THEN NoEntry ELSE model_cache[q]

\* the step in which the lookup serves an entry that had not expired: a hit
TokServesHit ==
  (tokpc = "serve" /\ tokpc' = "return" /\ tokarg.old # 0 /\ ~tokarg.expired) =>
     /\ tokret' = [model |-> tokarg.old]
     /\ tokLoads' = tokLoads
     /\ model_cache' = [model_cache EXCEPT ![tokarg.path] =
                          [model |-> tokarg.old, last_access |-> now]]

\* the step in which the lookup serves a path whose entry had expired: a load,
\* whose result is returned and, `inserted` says when, is inserted
TokServesLoad(inserted) ==
  (tokpc = "serve" /\ tokpc' = "return" /\ tokarg.expired) =>
     /\ tokLoads' = tokLoads + 1
     /\ tokret'.model # tokarg.old
     /\ inserted =>
          model_cache' = [model_cache EXCEPT ![tokarg.path] =
                            [model |-> tokret'.model, last_access |-> now]]

(* C10, as claimed: every lookup first removes every expired entry of any path;
   a lookup of a path whose entry had expired loads the model anew and inserts
   a new entry; a lookup of an unexpired entry returns the cached handle
   without loading and refreshes last_access. *)
C10_ExpiredLookupLoadsAndInserts ==
  [][TokEvictsFirst /\ TokServesHit /\ TokServesLoad(TRUE)]_vars

(* C10, amended: as claimed, but the new entry is inserted only if the load
   succeeds: when llama_load_model_from_file returns nullptr the lookup
   returns nullptr and the path is left without an entry. *)
C10_ExpiredLookupLoadsAnew ==
  [][/\ TokEvictsFirst /\ TokServesHit
     /\ TokServesLoad(tokret'.model # 0)
     /\ (tokpc = "serve" /\ tokpc' = "return" /\ tokarg.expired /\ tokret'.model = 0) =>
          model_cache' = model_cache /\ ~Present(model_cache', tokarg.path)]_vars

\* a lookup of a path whose entry had expired is returning a model loaded anew,
\* now cached in place of the old one
C10_Witness ==
  /\ tokpc = "return" /\ tokarg.expired
  /\ tokret.model # 0 /\ tokret.model # tokarg.old
  /\ model_cache[tokarg.path] = [model |-> tokret.model, last_access |-> now]

(* --- shutdown --- *)

(* C11: once the destructor has set done and signalled both condition
   variables, under fair scheduling and with terminating task bodies the worker
   and the janitor both terminate and the destructor passes both joins. *)
C11_ShutdownCompletes ==
  (dpc = "d_join_worker") ~> (wpc = "w_exit" /\ jpc = "j_exit" /\ dpc = "d_end")

(* --- the worker's signal to the janitor --- *)

\* the step in which the worker is done with the task it dequeued
TaskDropped == cur # Nil /\ cur' = Nil

(* C12, as claimed: whatever became of the task it dequeued (body returned, body
   threw, skipped as cancelled), the worker is done with it only in the step
   that notifies cleanup_cond_var, so the signal comes before the next
   dequeue. *)
C12_SignalAfterEveryTask ==
  [][TaskDropped => (wpc = "w_notify" /\ jpc' = NotifyJanitor(jpc))]_vars

(* C12, amended: after every task whose body it ran, whether the body returned
   or threw, the worker notifies cleanup_cond_var before it dequeues the next
   task; a task skipped as cancelled is dropped without that signal. *)
C12_SignalAfterEveryBody ==
  [][/\ (wpc = "w_body" /\ wpc' # "w_body") => (wpc' = "w_notify" /\ cur' = cur)
     /\ (wpc = "w_notify" /\ wpc' # "w_notify") =>
          (jpc' = NotifyJanitor(jpc) /\ wpc' = "w_lock" /\ TaskDropped)
     /\ Len(tasks') < Len(tasks) => (cur = Nil /\ cur' = Head(tasks))
     /\ TaskDropped =>
          \/ wpc = "w_notify"
          \/ wpc = "w_ck" /\ skipped' = skipped \cup {cur.uid} /\ jpc' = jpc]_vars

\* a body has thrown, an earlier task was skipped, and the worker is about to
\* signal a janitor that waits
C12_Witness ==
  /\ wpc = "w_notify" /\ lastOutcome = "throw" /\ jpc = "j_wait"
  /\ skipped # {}

(* --- what wakes the janitor --- *)

(* C13: while the queue is not shut down, a janitor woken from its wait by a
   notification (check_inactive_models, or the worker's signal) goes on to scan
   the cache, without waiting for the timeout. *)
C13_NotificationTriggersScan ==
  [][(jpc = "j_repred" /\ jpc' # "j_repred" /\ ~done) => jpc' = "j_scan"]_vars

(* C14, as claimed: once done is set the janitor makes no further scan of the
   cache, so it frees no entry after shutdown has been signalled. *)
C14_NoScanAfterShutdown ==
  [][(done /\ jpc = "j_scan") => jpc' = "j_scan"]_vars

(* C14, amended: done stays set; a janitor that finds done set at its wait_for
   does not wait but scans the cache once more, freeing what qualifies; the
   scan that ends with done set is its last: it leaves the loop at the next test
   of done and then touches nothing. *)
C14_OneLastScanThenExit ==
  [][/\ done => done'
     /\ (done /\ jpc \in {"j_pred", "j_repred"} /\ jpc' # jpc) => jpc' = "j_scan"
     /\ (done /\ jpc = "j_scan" /\ jpc' # jpc) =>
          (jpc' = "j_unlock" /\ cached_models' = SweepOnce(cached_models, now))
     /\ (done /\ jpc = "j_unlock" /\ jpc' # jpc) => jpc' = "j_top"
     /\ (done /\ jpc = "j_top" /\ jpc' # jpc) => jpc' = "j_exit"
     /\ jpc = "j_exit" => (jpc' = "j_exit" /\ models_lock' # "janitor")]_vars

\* a scan made after done was set has just freed an entry
C14_Witness ==
  /\ jpc = "j_unlock" /\ done /\ swept # {}

(* --- locks --- *)

\* the threads that are inside a section that reads or writes cancel_flags
FlagAccessors ==
  {p \in Producers : pc[p] \in {"cancel", "is_cancelled"}}
    \cup (IF wpc = "w_ck" THEN {"worker"} ELSE {})
    \cup (IF dpc = "d_clear" THEN {"owner"} ELSE {})

(* C15: every thread that reads, writes or erases cancel_flags holds queue_lock
   while it does, so at most one thread is inside such a section at a time. *)
C15_FlagsUnderQueueLock ==
  /\ \A t \in FlagAccessors : queue_lock = t
  /\ Cardinality(FlagAccessors) <= 1

Threads == Producers \cup {"worker", "janitor", "owner"}

\* the mutexes thread t owns
LocksHeldBy(t) ==
  (IF queue_lock = t THEN {"queue_lock"} ELSE {})
    \cup (IF inference_lock = t THEN {"inference_lock"} ELSE {})
    \cup (IF models_lock = t THEN {"models_lock"} ELSE {})

\* the threads that are at a lock() and have not got the mutex yet
AtLock ==
  (IF wpc \in {"w_lock", "w_woken", "w_cklock"} THEN {"worker"} ELSE {})
    \cup (IF jpc \in {"j_lock", "j_woken", "j_tmo"} THEN {"janitor"} ELSE {})
    \cup (IF dpc \in {"d_locki", "d_lockm"} THEN {"owner"} ELSE {})

(* C16: no thread owns two of queue_lock, inference_lock and models_lock at the
   same time, and a thread that is waiting to lock one owns none: no thread
   holds a lock while it waits for another, so no cycle of lock waits forms. *)
C16_AtMostOneLock ==
  /\ \A t \in Threads : Cardinality(LocksHeldBy(t)) <= 1
  /\ \A t \in AtLock : LocksHeldBy(t) = {}

\* the three mutexes are owned at once, by three threads
C16_Witness ==
  /\ queue_lock \in Producers /\ inference_lock = "worker" /\ models_lock = "janitor"

(* C17: while the worker runs a task body it owns none of queue_lock,
   inference_lock and models_lock, so whoever wants one of them during the body
   waits at most for another caller's short section, never for the body. *)
C17_BodyRunsUnlocked ==
  wpc = "w_body" => LocksHeldBy("worker") = {}

\* during one body a cancel of its request has run to its end and the janitor
\* has made a scan, and the body is still running
C17_Witness ==
  /\ wpc = "w_body" /\ cur.late
  /\ \A p \in Producers : pc[p] = "idle"
  /\ jpc = "j_unlock"

(* --- the end of the worker --- *)

\* the uids of the tasks the worker has taken from the queue
Dequeued ==
  {started[i] : i \in 1..Len(started)} \cup skipped
    \cup (IF cur # Nil THEN {cur.uid} ELSE {})

(* C18: the worker reaches its end only from the wait at the head of its loop,
   holding no task, with done set and the queue empty; once it has ended the
   queue is empty and every task ever appended was dequeued, and then run or
   skipped. *)
C18_ExitOnlyWhenDrained ==
  /\ [][(wpc' = "w_exit" /\ wpc # "w_exit") =>
          (wpc = "w_pred" /\ done /\ tasks = <<>> /\ cur = Nil)]_vars
  /\ [](wpc = "w_exit" =>
          /\ done /\ tasks = <<>> /\ cur = Nil
          /\ Dequeued = 1..(nextUid - 1)
          /\ Len(started) = Len(finished))

\* the worker has ended after it ran some tasks and skipped others, the last of
\* them after done was set
C18_Witness ==
  /\ wpc = "w_exit" /\ started # <<>> /\ skipped # {}
  /\ nextUid > MaxTasks

(* --- the life of a cancellation flag --- *)

\* a flag is erased only by the worker skipping a task of that id, or by the
\* destructor's clear
ErasedOnlyBySkip ==
  \A r \in ReqIds :
    (Flagged(cancel_flags, r) /\ ~Flagged(cancel_flags', r)) =>
       \/ wpc = "w_ck" /\ wpc' = "w_lock" /\ cur.rid = r /\ skipped' = skipped \cup {cur.uid}
       \/ dpc = "d_clear"

\* is_cancelled(r) answers what the flag set holds
IsCancelledReadsFlag ==
  \A p \in Producers :
    (pc[p] = "is_cancelled" /\ pc'[p] = "is_cancelled_ret") =>
       ret'[p].cancelled = Flagged(cancel_flags, arg[p].request_id)

\* the worker's check skips the task iff the flag of its id is set
CheckObeysFlag ==
  (wpc = "w_ck" /\ wpc' # "w_ck") =>
     IF Flagged(cancel_flags, cur.rid)
       THEN wpc' = "w_lock" /\ skipped' = skipped \cup {cur.uid} /\ started' = started
       ELSE wpc' = "w_body" /\ skipped' = skipped

(* C19: a cancellation flag is erased only when the worker skips a task of that
   request id or the destructor clears the set, never when a body ends; so a
   flag set while no task of its id is pending stays set: is_cancelled answers
   true for it, and the next task dequeued with that id is skipped and its body
   not run. *)
C19_FlagStaysUntilSkip ==
  [][ErasedOnlyBySkip /\ IsCancelledReadsFlag /\ CheckObeysFlag]_vars

(* --- release of the handles --- *)

\* the pairs the cache holds
CachedPairs == {PairOf(cached_models[p]) : p \in {q \in Paths : Present(cached_models, q)}}

(* C20: a handle pair is released at most once: no scan, clear_model_cache or
   final free of the destructor releases a pair that was released before and
   not allocated again since, or the same pair twice under two paths; a release
   takes the entry out of the cache in the same step, so the cache never holds a
   released pair and get_cached_model never returns one. *)
C20_ReleasedAtMostOnce ==
  /\ [][/\ (jpc = "j_scan" /\ jpc' = "j_unlock") =>
             SweepFrees(cached_models, now) \cap released = {}
        /\ \A c \in Producers :
             (pc[c] = "clear_model_cache" /\ pc'[c] = "clear_model_cache_ret") =>
                ClearFrees(cached_models, arg[c].force_clear) \cap released = {}
        /\ (dpc = "d_free" /\ dpc' = "d_end") =>
             DestructorFrees(cached_models) \cap released = {}
        /\ released' \cap CachedPairs' = {}]_vars
  /\ [](/\ \A p, q \in Paths :
             (Present(cached_models, p) /\ Present(cached_models, q) /\ p # q) =>
                PairOf(cached_models[p]) # PairOf(cached_models[q])
        /\ \A c \in Producers :
             pc[c] = "get_cached_model_ret" =>
                \/ ret[c].handles = NullPair /\ ~Present(cached_models, arg[c].path)
                \/ ret[c].handles \in CachedPairs \ released)

\* a scan has just released the handles of one entry, the handles of the other
\* were released before, and the cache is empty
C20_Witness ==
  /\ jpc = "j_unlock" /\ swept # {}
  /\ released = LoadedPairs /\ CachedPairs = {}

====
